---- MODULE Spec2Model ----
(***************************************************************************)
(* GoCryptoTracker (main.go): the price monitors started by main, the      *)
(* CoinCap price lookup, and the /portfolio/add and /portfolio/value       *)
(* handlers.                                                               *)
(*                                                                         *)
(* Numbers.  The program computes in float64, and so does the model: a     *)
(* price, a threshold, an amount and a total are float64 values, a string  *)
(* is converted as strconv.ParseFloat converts it, and sums, products and  *)
(* comparisons are those of IEEE 754 binary64 with rounding to nearest,    *)
(* ties to even.  Whether `totalValue += price * amount` rounds the        *)
(* product before it adds or fuses the two into one rounding is up to the  *)
(* compiler and the target; the model carries the choice as `fused`.       *)
(***************************************************************************)
EXTENDS Integers, Sequences, FiniteSets, TLC

(***************************************************************************)
(* Bounds of the model.                                                    *)
(***************************************************************************)
\* Seconds of model time that pass in one Tick.
TickSeconds == 10
\* Monitor fetch attempts are numbered modulo AttemptMod.
AttemptMod == 2
\* Rows the portfolio table holds at most.
MaxRows == 3
\* Alerts counted at most in a run of consecutive breaching cycles.
MaxAlerts == 2

(***************************************************************************)
(* Program constants.                                                      *)
(***************************************************************************)
\* main.go:24, seconds between two checks of a token's price.
retryDelay == 30
\* http.StatusInternalServerError, http.StatusOK, http.StatusCreated.
StatusInternalServerError == 500
StatusOK == 200

Min(a, b) == IF a < b THEN a ELSE b
Max(a, b) == IF a > b THEN a ELSE b

(***************************************************************************)
(* Natural numbers of any size, for the mantissas of float64 arithmetic    *)
(* and the digits of ParseFloat: little-endian sequences of limbs below    *)
(* LimbBase, no zero limb at the top; <<>> is zero.                        *)
(***************************************************************************)
LimbBits == 15
LimbBase == 2^LimbBits

Pow2 == [k \in 0..30 |-> 2^k]

\* The element of the singleton S.  An operator that uses an operand more
\* than once takes it through a singleton, Only({body : a \in {operand}}),
\* which computes the operand once and gives its value the name a.
Only(S) == CHOOSE r \in S : TRUE

\* A without its zero limbs at the top: the limbs up to the last that is
\* not zero.
BNorm(A_) ==
  Only({SubSeq(A, 1, Cardinality({i \in 1..Len(A) : \E j \in i..Len(A) : A[j] # 0})) :
          A \in {A_ \o <<>>}})

\* The limbs of the number c (c >= 0).
RECURSIVE BInt(_)
BInt(c) == IF c = 0 THEN <<>> ELSE <<c % LimbBase>> \o BInt(c \div LimbBase)

BLimb(A, i) == IF i >= 1 /\ i <= Len(A) THEN A[i] ELSE 0

\* The limbs S with the part of each limb above LimbBase carried into the
\* next limb.
BCarryOnce(S_) ==
  Only({[i \in 1..(Len(S) + 1) |->
           (BLimb(S, i) % LimbBase) + (BLimb(S, i - 1) \div LimbBase)] \o <<>> :
          S \in {S_ \o <<>>}})

\* A carry of 1 enters limb i of U, whose limbs are at most LimbBase + 1: a
\* limb below i overflows and every limb between the two is LimbBase - 1.
BCarryIn(U, i) ==
  \E j \in 1..(i - 1) :
    U[j] >= LimbBase /\ \A k \in (j + 1)..(i - 1) : U[k] = LimbBase - 1

\* The number whose limbs, not yet reduced below LimbBase, are S: two
\* rounds leave limbs U of at most LimbBase + 1, and the last carries ripple.
BCarry(S_) ==
  Only({BNorm([i \in 1..Len(U) |->
                 (U[i] + (IF BCarryIn(U, i) THEN 1 ELSE 0)) % LimbBase]) :
          U \in {BCarryOnce(BCarryOnce(S_))}})

BAdd(A_, B_) ==
  Only({BCarry([i \in 1..Max(Len(A), Len(B)) |-> BLimb(A, i) + BLimb(B, i)]) :
          A \in {A_ \o <<>>}, B \in {B_ \o <<>>}})

\* Limb i of A - B gives a borrow to the limbs below it: a limb of A
\* below i is under that of B and the limbs between the two are equal.
BBorrow(A, B, i) ==
  \E j \in 1..(i - 1) :
    A[j] < BLimb(B, j) /\ \A k \in (j + 1)..(i - 1) : A[k] = BLimb(B, k)

\* A - B, for A >= B.
BSub(A_, B_) ==
  Only({BNorm([i \in 1..Len(A) |->
                 (A[i] - BLimb(B, i) - (IF BBorrow(A, B, i) THEN 1 ELSE 0) + LimbBase)
                   % LimbBase]) :
          A \in {A_ \o <<>>}, B \in {B_ \o <<>>}})

\* The top limb in which A and B, of the same length and not equal, differ.
BTopDiff(A, B) ==
  CHOOSE i \in 1..Len(A) : A[i] # B[i] /\ \A k \in (i + 1)..Len(A) : A[k] = B[k]

\* -1, 0 or 1 as A is below, equal to or above B.
BCmp(A_, B_) ==
  Only({IF Len(A) < Len(B) THEN 0 - 1
        ELSE IF Len(A) > Len(B) THEN 1
        ELSE IF A = B THEN 0
        ELSE IF A[BTopDiff(A, B)] < B[BTopDiff(A, B)] THEN 0 - 1
        ELSE 1 :
          A \in {A_ \o <<>>}, B \in {B_ \o <<>>}})

\* A times the limb c.
BMulSmall(A_, c_) ==
  Only({IF c = 0 THEN <<>> ELSE BCarry([i \in 1..Len(A) |-> A[i] * c]) :
          A \in {A_ \o <<>>}, c \in {c_}})

\* A times LimbBase^n.
BShlLimbs(A_, n_) ==
  Only({IF A = <<>> THEN <<>>
        ELSE [i \in 1..(Len(A) + n) |-> IF i <= n THEN 0 ELSE A[i - n]] \o <<>> :
          A \in {A_ \o <<>>}, n \in {n_}})

\* Limb p of A times B before the carries: the low halves of the products
\* of limbs that meet at p plus the high halves of those that meet at
\* p - 1, over the limbs lo, ..., hi of A.
RECURSIVE BColumn(_, _, _, _, _)
BColumn(A_, B_, p_, lo_, hi_) ==
  Only({IF lo > hi THEN 0
        ELSE IF lo = hi
        THEN ((A[lo] * BLimb(B, p + 1 - lo)) % LimbBase)
             + ((A[lo] * BLimb(B, p - lo)) \div LimbBase)
        ELSE BColumn(A, B, p, lo, (lo + hi) \div 2)
             + BColumn(A, B, p, (lo + hi) \div 2 + 1, hi) :
          A \in {A_}, B \in {B_}, p \in {p_}, lo \in {lo_}, hi \in {hi_}})

BMulShort(A_, B_) ==
  Only({BCarry([p \in 1..(Len(A) + Len(B)) |-> BColumn(A, B, p, 1, Len(A))]) :
          A \in {A_ \o <<>>}, B \in {B_ \o <<>>}})

BMul(A_, B_) ==
  Only({IF A = <<>> \/ B = <<>> THEN <<>>
        ELSE IF Len(A) < Len(B) THEN BMulShort(A, B) ELSE BMulShort(B, A) :
          A \in {A_ \o <<>>}, B \in {B_ \o <<>>}})

\* A times 2^n.
BShl(A_, n_) ==
  Only({BShlLimbs(BMulSmall(A, Pow2[n % LimbBits]), n \div LimbBits) :
          A \in {A_}, n \in {n_}})

\* The whole part of A / 2^n.
BShr(A_, n_) ==
  Only({IF n \div LimbBits >= Len(A) THEN <<>>
        ELSE BNorm([i \in 1..(Len(A) - (n \div LimbBits)) |->
                      (A[i + (n \div LimbBits)] \div Pow2[n % LimbBits])
                      + (BLimb(A, i + (n \div LimbBits) + 1) % Pow2[n % LimbBits])
                        * Pow2[LimbBits - (n % LimbBits)]]) :
          A \in {A_ \o <<>>}, n \in {n_}})

\* The number of bits of the limb c: the powers of two that are at most c.
LimbLen(c_) == Only({Cardinality({k \in 0..(LimbBits - 1) : Pow2[k] <= c}) : c \in {c_}})

\* The number of bits of A.
BBitLen(A_) ==
  Only({IF A = <<>> THEN 0 ELSE (Len(A) - 1) * LimbBits + LimbLen(A[Len(A)]) :
          A \in {A_}})

\* A is a multiple of 2^n.
BDivisible(A_, n_) ==
  Only({((\A i \in 1..Len(A) : i <= n \div LimbBits => A[i] = 0)
         /\ BLimb(A, n \div LimbBits + 1) % Pow2[n % LimbBits] = 0) :
          A \in {A_}, n \in {n_}})

\* Bit n of A (bit 0 is the lowest).
BBit(A_, n_) ==
  Only({(BLimb(A, n \div LimbBits + 1) \div Pow2[n % LimbBits]) % 2 :
          A \in {A_}, n \in {n_}})

\* The number of zero bits at the bottom of A, A not zero: the place of
\* its lowest bit that is set.
BTrailingZeros(A_) ==
  Only({CHOOSE n \in 0..(Len(A) * LimbBits - 1) :
          BBit(A, n) = 1 /\ \A k \in 0..(n - 1) : BBit(A, k) = 0 :
          A \in {A_ \o <<>>}})

(***************************************************************************)
(* float64.  A value is a NaN, an infinity, a zero or neg * m * 2^e with m *)
(* an odd natural below 2^53.                                              *)
(***************************************************************************)
MantBits == 53
MaxExp == 1023
MinExp == 0 - 1074

NaN == [cls |-> "nan", neg |-> FALSE, m |-> <<>>, e |-> 0]
Inf(neg) == [cls |-> "inf", neg |-> neg, m |-> <<>>, e |-> 0]
Zero(neg) == [cls |-> "fin", neg |-> neg, m |-> <<>>, e |-> 0]

IsNaN(x) == x.cls = "nan"
IsInf(x) == x.cls = "inf"
IsZero(x_) == Only({x.cls = "fin" /\ x.m = <<>> : x \in {x_}})

\* N * 2^(k - tz) with tz zero bits at the bottom of N: these moved into the
\* exponent.
CanonAt(neg, N, k, tz) == [cls |-> "fin", neg |-> neg, m |-> BShr(N, tz), e |-> k]

\* N * 2^k, N not zero, with the zero bits at the bottom of N moved into
\* the exponent.
Canon(neg_, N_, k_) ==
  Only({CanonAt(neg, N, k + tz, tz) :
          neg \in {neg_}, N \in {N_}, k \in {k_}, tz \in {BTrailingZeros(N_)}})

\* N * 2^k rounded at the bit of weight 2^u, u > k, to q or q + 1, q being
\* the whole part of N / 2^(u - k): up when the bit below is set and either
\* more follows or q is odd.
RoundAt(neg_, N_, k_, sticky_, u_, q_) ==
  Only({(IF r = <<>> THEN Zero(neg)
         ELSE IF BBitLen(r) - 1 + u > MaxExp THEN Inf(neg)
         ELSE Canon(neg, r, u)) :
          neg \in {neg_}, u \in {u_},
          r \in {IF /\ BBit(N_, u_ - k_ - 1) = 1
                    /\ (sticky_ \/ ~BDivisible(N_, u_ - k_ - 1) \/ BBit(q_, 0) = 1)
                 THEN BAdd(q_, <<1>>) ELSE q_}})

\* RoundBig for N * 2^k with its top bit of weight 2^top: rounded at the
\* bit of weight 2^u, MantBits - 1 below the top or MinExp.
RoundTo(neg_, N_, k_, sticky_, top_) ==
  Only({(IF u <= k
         THEN IF top > MaxExp THEN Inf(neg) ELSE Canon(neg, N, k)
         ELSE RoundAt(neg, N, k, sticky, u, BShr(N, u - k))) :
          neg \in {neg_}, N \in {N_}, k \in {k_}, sticky \in {sticky_},
          top \in {top_}, u \in {Max(top_ - (MantBits - 1), MinExp)}})

\* The float64 nearest to N * 2^k (N not zero), ties to the even mantissa;
\* sticky says the number rounded is a little more than N * 2^k, N then
\* having more than MantBits + 1 bits.
RoundBig(neg_, N_, k_, sticky_) ==
  Only({RoundTo(neg, N, k, sticky, BBitLen(N) - 1 + k) :
          neg \in {neg_}, N \in {N_}, k \in {k_}, sticky \in {sticky_}})

\* Bits kept below the larger term when the smaller one is far below it.
GuardBits == 64

\* The sum of the terms of sign neg1 and neg2 and of size A1 * 2^k0 and
\* A2 * 2^k0, rounded.
AddAligned(neg1_, A1_, neg2_, A2_, k0_) ==
  Only({(IF neg1 = neg2 THEN RoundBig(neg1, BAdd(A1, A2), k0, FALSE)
         ELSE IF c = 0 THEN Zero(FALSE)
         ELSE IF c > 0 THEN RoundBig(neg1, BSub(A1, A2), k0, FALSE)
         ELSE RoundBig(neg2, BSub(A2, A1), k0, FALSE)) :
          neg1 \in {neg1_}, A1 \in {A1_}, neg2 \in {neg2_}, A2 \in {A2_},
          k0 \in {k0_}, c \in {BCmp(A1_, A2_)}})

\* The sum of big and small, the top bit of small more than GuardBits below
\* the bottom of big: big a little more, or a little less.
AddFar(big, small) ==
  IF big.neg = small.neg
  THEN RoundBig(big.neg, BShl(big.N, GuardBits), big.k - GuardBits, TRUE)
  ELSE RoundBig(big.neg, BSub(BShl(big.N, GuardBits), <<1>>), big.k - GuardBits, TRUE)

\* AddRound for terms whose top bits have the weights 2^top1 and 2^top2.
AddTops(t1_, t2_, top1_, top2_) ==
  Only({(IF top1 >= top2
         THEN IF top2 + GuardBits <= t1.k THEN AddFar(t1, t2)
              ELSE AddAligned(t1.neg, BShl(t1.N, t1.k - Min(t1.k, t2.k)),
                              t2.neg, BShl(t2.N, t2.k - Min(t1.k, t2.k)),
                              Min(t1.k, t2.k))
         ELSE IF top1 + GuardBits <= t2.k THEN AddFar(t2, t1)
              ELSE AddAligned(t1.neg, BShl(t1.N, t1.k - Min(t1.k, t2.k)),
                              t2.neg, BShl(t2.N, t2.k - Min(t1.k, t2.k)),
                              Min(t1.k, t2.k))) :
          t1 \in {t1_}, t2 \in {t2_}, top1 \in {top1_}, top2 \in {top2_}})

\* The float64 nearest to the sum of t1 and t2, each a sign neg and a
\* number N * 2^k that is not zero.
AddRound(t1_, t2_) ==
  Only({AddTops(t1, t2, BBitLen(t1.N) + t1.k, BBitLen(t2.N) + t2.k) :
          t1 \in {t1_}, t2 \in {t2_}})

Term(x) == [neg |-> x.neg, N |-> x.m, k |-> x.e]

\* x + y
FAdd(x_, y_) ==
  Only({(IF IsNaN(x) \/ IsNaN(y) THEN NaN
         ELSE IF IsInf(x) THEN (IF IsInf(y) /\ x.neg # y.neg THEN NaN ELSE x)
         ELSE IF IsInf(y) THEN y
         ELSE IF IsZero(x) THEN (IF IsZero(y) THEN Zero(x.neg /\ y.neg) ELSE y)
         ELSE IF IsZero(y) THEN x
         ELSE AddRound(Term(x), Term(y))) :
          x \in {x_}, y \in {y_}})

\* x * y
FMul(x_, y_) ==
  Only({(IF IsNaN(x) \/ IsNaN(y) THEN NaN
         ELSE IF IsInf(x) \/ IsInf(y)
         THEN (IF IsZero(x) \/ IsZero(y) THEN NaN ELSE Inf(x.neg # y.neg))
         ELSE IF IsZero(x) \/ IsZero(y) THEN Zero(x.neg # y.neg)
         ELSE RoundBig(x.neg # y.neg, BMul(x.m, y.m), x.e + y.e, FALSE)) :
          x \in {x_}, y \in {y_}})

\* x * y + z rounded once (a fused multiply-add).
FMA(x_, y_, z_) ==
  Only({(IF IsNaN(x) \/ IsNaN(y) \/ IsNaN(z) THEN NaN
         ELSE IF IsInf(x) \/ IsInf(y)
         THEN (IF IsZero(x) \/ IsZero(y) THEN NaN
               ELSE IF IsInf(z) /\ z.neg # (x.neg # y.neg) THEN NaN
               ELSE Inf(x.neg # y.neg))
         ELSE IF IsInf(z) THEN z
         ELSE IF IsZero(x) \/ IsZero(y)
         THEN (IF IsZero(z) THEN Zero((x.neg # y.neg) /\ z.neg) ELSE z)
         ELSE IF IsZero(z)
         THEN RoundBig(x.neg # y.neg, BMul(x.m, y.m), x.e + y.e, FALSE)
         ELSE AddRound([neg |-> x.neg # y.neg, N |-> BMul(x.m, y.m), k |-> x.e + y.e],
                       Term(z))) :
          x \in {x_}, y \in {y_}, z \in {z_}})

\* Limb i of A * 2^n.
ShiftedLimb(A, n, i) ==
  ((BLimb(A, i - (n \div LimbBits)) * Pow2[n % LimbBits]) % LimbBase)
  + (BLimb(A, i - (n \div LimbBits) - 1) \div Pow2[LimbBits - (n % LimbBits)])

\* A * 2^a > B * 2^b, both below LimbBase^n: the top limb in which the
\* two differ is the larger in the first.
ShiftedGt(A, a, B, b, n) ==
  \E i \in 1..n :
    /\ ShiftedLimb(A, a, i) > ShiftedLimb(B, b, i)
    /\ \A k \in (i + 1)..n : ShiftedLimb(A, a, k) = ShiftedLimb(B, b, k)

\* |x| > |y| for x and y finite and not zero: the top bits decide, and
\* between equal top bits the mantissas brought to the lower exponent.
MagGt(x_, y_) ==
  Only({(IF topx # topy THEN topx > topy
         ELSE IF x.e < y.e THEN ShiftedGt(x.m, 0, y.m, y.e - x.e, Len(x.m))
         ELSE ShiftedGt(x.m, x.e - y.e, y.m, 0, Len(y.m))) :
          x \in {x_}, y \in {y_},
          topx \in {BBitLen(x_.m) + x_.e}, topy \in {BBitLen(y_.m) + y_.e}})

\* x > y
FGt(x_, y_) ==
  Only({(IF IsNaN(x) \/ IsNaN(y) THEN FALSE
         ELSE IF IsInf(x) THEN ~x.neg /\ ~(IsInf(y) /\ ~y.neg)
         ELSE IF IsInf(y) THEN y.neg
         ELSE IF IsZero(x) THEN ~IsZero(y) /\ y.neg
         ELSE IF IsZero(y) THEN ~x.neg
         ELSE IF x.neg # y.neg THEN y.neg
         ELSE IF x.neg THEN MagGt(y, x)
         ELSE MagGt(x, y)) :
          x \in {x_}, y \in {y_}})

(***************************************************************************)
(* strconv.ParseFloat(s, 64).  A string is a sequence of characters.       *)
(***************************************************************************)
Digits == <<"0", "1", "2", "3", "4", "5", "6", "7", "8", "9">>
HexLetters == <<"a", "b", "c", "d", "e", "f">>
UpperLetters ==
  <<"A", "B", "C", "D", "E", "F", "G", "H", "I", "J", "K", "L", "M",
    "N", "O", "P", "Q", "R", "S", "T", "U", "V", "W", "X", "Y", "Z">>
IndexIn(c_, chars) == Only({CHOOSE i \in DOMAIN chars : chars[i] = c : c \in {c_}})
IsIn(c_, chars) == Only({\E i \in DOMAIN chars : chars[i] = c : c \in {c_}})

\* lower(c): c | ('x' - 'X'), used on letters only.
Lower(c_) ==
  Only({IF IsIn(c, UpperLetters)
        THEN <<"a", "b", "c", "d", "e", "f", "g", "h", "i", "j", "k", "l", "m",
               "n", "o", "p", "q", "r", "s", "t", "u", "v", "w", "x", "y", "z">>
               [IndexIn(c, UpperLetters)]
        ELSE c :
          c \in {c_}})

IsDigit(c) == IsIn(c, Digits)
IsHexDigit(c_) == Only({IsDigit(c) \/ IsIn(Lower(c), HexLetters) : c \in {c_}})
DigitVal(c_) ==
  Only({IF IsDigit(c) THEN IndexIn(c, Digits) - 1 ELSE IndexIn(Lower(c), HexLetters) + 9 :
          c \in {c_}})

LowerAll(s_) == Only({[i \in 1..Len(s) |-> Lower(s[i])] : s \in {s_}})

\* underscoreOK(s): the underscores of s separate digits, from character i
\* on, saw being the kind of the character before.
RECURSIVE UnderscoreScan(_, _, _, _)
UnderscoreScan(s, i, saw, hex) ==
  IF i > Len(s) THEN saw # "_"
  ELSE IF IsDigit(s[i]) \/ (hex /\ IsIn(Lower(s[i]), HexLetters))
  THEN UnderscoreScan(s, i + 1, "0", hex)
  ELSE IF s[i] = "_"
  THEN saw = "0" /\ UnderscoreScan(s, i + 1, "_", hex)
  ELSE saw # "_" /\ UnderscoreScan(s, i + 1, "!", hex)

\* s without its sign.
Unsigned(s_) ==
  Only({IF s # <<>> /\ s[1] \in {"+", "-"} THEN Tail(s) ELSE s : s \in {s_}})

UnderscoreOK(s0) ==
  Only({(IF Len(s) >= 2 /\ s[1] = "0" /\ Lower(s[2]) \in {"b", "o", "x"}
         THEN UnderscoreScan(s, 3, "0", Lower(s[2]) = "x")
         ELSE UnderscoreScan(s, 1, "^", FALSE)) :
          s \in {Unsigned(s0) \o <<>>}})

\* The loop of readFloat over the digits of the mantissa ends at the
\* character c: a second point, or no digit, point or underscore.
MantStops(c_, base_, st_) ==
  Only({((c = "." /\ st.sawdot)
         \/ (c \notin {"_", "."} /\ ~(IsDigit(c) \/ (base = 16 /\ IsHexDigit(c))))) :
          c \in {c_}, base \in {base_}, st \in {st_}})

\* The state of that loop after the character c: st.M the digits read as a
\* number, st.nd their count after the leading zeros, st.dp the position
\* of the point.
MantStep(c_, base_, st_) ==
  Only({(IF c = "_" THEN [st EXCEPT !.underscores = TRUE]
         ELSE IF c = "." THEN [st EXCEPT !.sawdot = TRUE, !.dp = st.nd]
         ELSE IF c = "0" /\ st.nd = 0
         THEN [st EXCEPT !.sawdigits = TRUE, !.dp = st.dp - 1]
         ELSE [st EXCEPT !.sawdigits = TRUE, !.nd = st.nd + 1,
                         !.M = BAdd(BMulSmall(st.M, base), BInt(DigitVal(c)))]) :
          c \in {c_}, base \in {base_}, st \in {st_}})

\* The loop of readFloat over the digits of the mantissa, from character i
\* on; st.i is the first character not read.
RECURSIVE MantScan(_, _, _, _)
MantScan(s_, i_, base_, st_) ==
  Only({(IF i > Len(s) \/ MantStops(s[i], base, st) THEN [st EXCEPT !.i = i]
         ELSE MantScan(s, i + 1, base, MantStep(s[i], base, st))) :
          s \in {s_}, i \in {i_}, base \in {base_}, st \in {st_}})

\* The loop of readFloat over the digits of the exponent, from character i.
RECURSIVE ExpScan(_, _, _)
ExpScan(s_, i_, st_) ==
  Only({(IF i > Len(s) THEN [st EXCEPT !.i = i]
         ELSE IF s[i] = "_" THEN ExpScan(s, i + 1, [st EXCEPT !.underscores = TRUE])
         ELSE IF IsDigit(s[i])
         THEN ExpScan(s, i + 1,
                      [st EXCEPT !.e = IF st.e < 10000 THEN st.e * 10 + DigitVal(s[i])
                                       ELSE st.e])
         ELSE [st EXCEPT !.i = i]) :
          s \in {s_}, i \in {i_}, st \in {st_}})

\* The index of the first character of s after its sign.
AfterSign(s) == IF s # <<>> /\ s[1] \in {"+", "-"} THEN 2 ELSE 1

\* s has the prefix 0x after its sign, and a character after it.
IsHex(s_) ==
  Only({AfterSign(s) + 2 <= Len(s) /\ s[AfterSign(s)] = "0"
        /\ Lower(s[AfterSign(s) + 1]) = "x" : s \in {s_}})

\* The mantissa of s as readFloat reads it.
ReadMantissa(s_, hex_) ==
  Only({MantScan(s, IF hex THEN AfterSign(s) + 2 ELSE AfterSign(s),
                 IF hex THEN 16 ELSE 10,
                 [i |-> 0, sawdot |-> FALSE, sawdigits |-> FALSE,
                  underscores |-> FALSE, nd |-> 0, dp |-> 0, M |-> <<>>]) :
          s \in {s_}, hex \in {hex_}})

\* The index of the first digit of the exponent that follows the mantissa m.
ExpStart(s, m) ==
  IF m.i + 1 <= Len(s) /\ s[m.i + 1] \in {"+", "-"} THEN m.i + 2 ELSE m.i + 1

\* The exponent of s after the mantissa m, as readFloat reads it.
ReadExponent(s_, m_) ==
  Only({ExpScan(s, ExpStart(s, m), [i |-> 0, e |-> 0, underscores |-> m.underscores]) :
          s \in {s_}, m \in {m_}})

\* readFloat for s with mantissa m and exponent x.
ReadParts(s_, hex_, m_, x_) ==
  Only({LET bad    == [ok |-> FALSE, neg |-> FALSE, base |-> 10, M |-> <<>>,
                       exp |-> 0, i |-> 1]
            unit   == IF hex THEN 4 ELSE 1
            dp0    == (IF m.sawdot THEN m.dp ELSE m.nd) * unit
            nd0    == m.nd * unit
            hasExp == m.i <= Len(s) /\ Lower(s[m.i]) = (IF hex THEN "p" ELSE "e")
            eneg   == m.i + 1 <= Len(s) /\ s[m.i + 1] = "-"
            j1     == ExpStart(s, m)
            dp1    == IF hasExp THEN dp0 + (IF eneg THEN 0 - x.e ELSE x.e) ELSE dp0
            iEnd   == IF hasExp THEN x.i ELSE m.i
            under  == IF hasExp THEN x.underscores ELSE m.underscores
        IN  IF s = <<>> THEN bad
            ELSE IF ~m.sawdigits THEN bad
            ELSE IF hasExp /\ (j1 > Len(s) \/ ~IsDigit(s[j1])) THEN bad
            ELSE IF ~hasExp /\ hex THEN bad
            ELSE IF under /\ ~UnderscoreOK(SubSeq(s, 1, iEnd - 1)) THEN bad
            ELSE [ok |-> TRUE, neg |-> s[1] = "-", base |-> IF hex THEN 2 ELSE 10,
                  M |-> m.M, exp |-> IF m.M = <<>> THEN 0 ELSE dp1 - nd0, i |-> iEnd] :
          s \in {s_}, hex \in {hex_}, m \in {m_}, x \in {x_}})

ReadFrom(s_, hex_, m_) ==
  Only({ReadParts(s, hex, m, ReadExponent(s, m)) :
          s \in {s_}, hex \in {hex_}, m \in {m_}})

\* readFloat(s): ok, the sign, the base, the mantissa M and the exponent exp
\* of the base (10, or 2 for a hexadecimal mantissa), and the index i of
\* the first character not read.
ReadFloat(s_) ==
  Only({ReadFrom(s, hex, ReadMantissa(s, hex)) : s \in {s_}, hex \in {IsHex(s_)}})

\* The square of A.
BSquare(A_) == Only({BMul(A, A) : A \in {A_}})

\* 5^n
RECURSIVE Pow5(_)
Pow5(n_) ==
  Only({(IF n <= 6 THEN BInt(5^n)
         ELSE IF n % 2 = 0 THEN BSquare(Pow5(n \div 2))
         ELSE BMulSmall(BSquare(Pow5(n \div 2)), 5)) :
          n \in {n_}})

\* The number of decimal digits of M, or up to two more: those of 2^b for
\* the b bits of M, 2^b having more than b * 0.30102 digits and fewer than
\* b * 0.30103 + 1.
DecLenMost(M) == (BBitLen(M) * 30103) \div 100000 + 1

RoundQuotient(neg_, d_, k_) ==
  Only({RoundBig(neg, d.q, k, d.r # <<>>) : neg \in {neg_}, d \in {d_}, k \in {k_}})

\* The largest limb d, at most est, with T * d <= R.
RECURSIVE BDigitFit(_, _, _)
BDigitFit(R_, T_, est_) ==
  Only({IF BCmp(BMulSmall(T, est), R) > 0 THEN BDigitFit(R, T, est - 1) ELSE est :
          R \in {R_}, T \in {T_}, est \in {est_}})

BDivLimb(lower_, limb_) ==
  Only({[q |-> Append(lower.q, limb), r |-> lower.r] :
          lower \in {lower_}, limb \in {limb_}})

\* The limbs j, j - 1, ..., 0 of the whole part q of R / D and the rest r,
\* the top limb of D being at least LimbBase / 2 and R below D * LimbBase^(j+1).
RECURSIVE BDivDigits(_, _, _)
BDivNext(R_, D_, j_, T_, d_) ==
  Only({BDivLimb(BDivDigits(BSub(R, BMulSmall(T, d)), D, j - 1), d) :
          R \in {R_}, D \in {D_}, j \in {j_}, T \in {T_}, d \in {d_}})

\* The first guess of limb j of R / D: the two top limbs of R by the top
\* limb of D, at most LimbBase - 1.
BDivGuess(R_, D_, j_) ==
  Only({Min(est, LimbBase - 1) :
          est \in {(BLimb(R_, Len(D_) + j_ + 1) * LimbBase + BLimb(R_, Len(D_) + j_))
                     \div D_[Len(D_)]}})

BDivStep(R_, D_, j_, T_) ==
  Only({BDivNext(R, D, j, T, BDigitFit(R, T, BDivGuess(R, D, j))) :
          R \in {R_}, D \in {D_}, j \in {j_}, T \in {T_}})

BDivDigits(R_, D_, j_) ==
  Only({IF j < 0 THEN [q |-> <<>>, r |-> R] ELSE BDivStep(R, D, j, BShlLimbs(D, j)) :
          R \in {R_}, D \in {D_}, j \in {j_}})

\* The whole part q of Nn / Dn, and r zero exactly when nothing is left
\* over, the top limb of Dn being at least LimbBase / 2.
BDivNormal(Nn_, Dn_) ==
  Only({[q |-> BNorm(d.q), r |-> d.r] :
          d \in {BDivDigits(Nn_, Dn_, Len(Nn_) - Len(Dn_))}})

BDivShifted(N_, D_, sh_) ==
  Only({BDivNormal(BShl(N, sh), BShl(D, sh)) : N \in {N_}, D \in {D_}, sh \in {sh_}})

\* The whole part q of N / D, and r zero exactly when nothing is left over.
BDivMod(N_, D_) ==
  Only({BDivShifted(N, D, LimbBits - LimbLen(D[Len(D)])) : N \in {N_}, D \in {D_}})

RoundShifted(neg_, M_, D_, k_, s_) ==
  Only({RoundQuotient(neg, BDivMod(BShl(M, s), D), k - s) :
          neg \in {neg_}, M \in {M_}, D \in {D_}, k \in {k_}, s \in {s_}})

\* The float64 nearest to (M / D) * 2^k, M not zero: M is shifted left to
\* give the whole part of the ratio more than MantBits + 1 bits.
RoundRatio(neg_, M_, D_, k_) ==
  Only({RoundShifted(neg, M, D, k, Max(BBitLen(D) + MantBits + 3 - BBitLen(M), 0)) :
          neg \in {neg_}, M \in {M_}, D \in {D_}, k \in {k_}})

\* The float64 nearest to M * 10^exp, M not zero, a number of at most most
\* digits before its decimal point and of at least most - 2: beyond 310
\* digits it is above every float64, and below 10^-330 it rounds to zero.
DecimalAt(neg_, M_, exp_, most_) ==
  Only({(IF most - 2 > 310 THEN Inf(neg)
         ELSE IF most < 0 - 330 THEN Zero(neg)
         ELSE IF exp >= 0 THEN RoundBig(neg, BMul(M, Pow5(exp)), exp, FALSE)
         ELSE RoundRatio(neg, M, Pow5(0 - exp), exp)) :
          neg \in {neg_}, M \in {M_}, exp \in {exp_}, most \in {most_}})

\* The float64 nearest to M * 10^exp, M not zero.
DecimalToFloat(neg_, M_, exp_) ==
  Only({DecimalAt(neg, M, exp, exp + DecLenMost(M)) :
          neg \in {neg_}, M \in {M_}, exp \in {exp_}})

\* The float64 that readFloat's r denotes.
FloatOf(r_) ==
  Only({(IF r.M = <<>> THEN Zero(r.neg)
         ELSE IF r.base = 2 THEN RoundBig(r.neg, r.M, r.exp, FALSE)
         ELSE DecimalToFloat(r.neg, r.M, r.exp)) :
          r \in {r_}})

\* ParseFloat for s that reads as r and denotes v.
Parsed(s_, r_, v_) ==
  Only({(IF ~r.ok \/ r.i # Len(s) + 1 THEN [ok |-> FALSE, val |-> Zero(FALSE)]
         ELSE IF IsInf(v) THEN [ok |-> FALSE, val |-> v]
         ELSE [ok |-> TRUE, val |-> v]) :
          s \in {s_}, r \in {r_}, v \in {v_}})

ParseNumber(s_, r_) ==
  Only({Parsed(s, r, IF r.ok THEN FloatOf(r) ELSE Zero(FALSE)) :
          s \in {s_}, r \in {r_}})

\* strconv.ParseFloat(s, 64): ok is err == nil, val the float64 returned.
ParseFloat(s_) ==
  Only({(IF Unsigned(low) \in {<<"i", "n", "f">>,
                                <<"i", "n", "f", "i", "n", "i", "t", "y">>}
         THEN [ok |-> TRUE, val |-> Inf(s[1] = "-")]
         ELSE IF low = <<"n", "a", "n">> THEN [ok |-> TRUE, val |-> NaN]
         ELSE ParseNumber(s, ReadFloat(s))) :
          s \in {s_}, low \in {LowerAll(s_)}})
(***************************************************************************)
(* The market source.  A Response is what one GET of the CoinCap assets    *)
(* endpoint yields: a transport error, a body that is not the expected     *)
(* JSON, or a decoded catalog of records.                                  *)
(***************************************************************************)
Symbols == {"BTC", "ETH"}

Asset(sym, price) == [Symbol |-> sym, PriceUsd |-> price]

Str50000 == <<"5", "0", "0", "0", "0">>
Str3000 == <<"3", "0", "0", "0">>
Str3000m == <<"3", "0", "0", "0", ".", "0", "0", "1">>
Str1e308 == <<"1", "e", "3", "0", "8">>
StrBad == <<"a", "b", "c">>

Catalog(data) == [kind |-> "ok", Data |-> data]
TransportError == [kind |-> "transport", Data |-> <<>>]
MalformedBody == [kind |-> "decode", Data |-> <<>>]

Responses ==
  { Catalog(<<Asset("BTC", Str50000), Asset("ETH", Str3000)>>),
    Catalog(<<Asset("ETH", Str3000m), Asset("BTC", Str50000)>>),
    Catalog(<<Asset("BTC", StrBad), Asset("ETH", Str3000)>>),
    Catalog(<<Asset("ETH", Str1e308), Asset("ETH", Str3000)>>),
    TransportError,
    MalformedBody }

\* The outcome of a lookup: err is "none" or the kind of error returned,
\* price the float64 returned with it.
Found(p) == [err |-> "none", price |-> p]
Failed(e) == [err |-> e, price |-> Zero(FALSE)]

\* The first record of data, whatever its symbol.
FirstMatchAnySymbol(data, symbol) == IF data = <<>> THEN 0 ELSE 1

\* The first record of data whose Symbol is symbol, 0 when there is none.
FirstMatch(data, symbol) ==
  LET hits == {i \in 1..Len(data) : data[i].Symbol = symbol}
  IN  IF hits = {} THEN 0 ELSE CHOOSE i \in hits : \A j \in hits : i <= j

\* A lookup that answers price 0 and no error for a symbol it does not find.
getCoinCapPriceZeroIfMissing(resp, symbol) ==
  IF resp.kind = "transport" THEN Failed("transport")
  ELSE IF resp.kind = "decode" THEN Failed("decode")
  ELSE LET i == FirstMatch(resp.Data, symbol)
       IN  IF i = 0 THEN Found(Zero(FALSE))
           ELSE LET p == ParseFloat(resp.Data[i].PriceUsd)
                IN  IF p.ok THEN Found(p.val) ELSE Failed("parse")

\* A lookup that converts the price of every record before it searches.
getCoinCapPriceEager(resp, symbol) ==
  IF resp.kind = "transport" THEN Failed("transport")
  ELSE IF resp.kind = "decode" THEN Failed("decode")
  ELSE IF \E k \in DOMAIN resp.Data : ~ParseFloat(resp.Data[k].PriceUsd).ok
  THEN Failed("parse")
  ELSE LET i == FirstMatch(resp.Data, symbol)
       IN  IF i = 0 THEN Failed("notfound")
           ELSE Found(ParseFloat(resp.Data[i].PriceUsd).val)

\* getCoinCapPrice(symbol) when the GET yields resp.
getCoinCapPrice(resp, symbol) ==
  IF resp.kind = "transport" THEN Failed("transport")
  ELSE IF resp.kind = "decode" THEN Failed("decode")
  ELSE LET i == FirstMatch(resp.Data, symbol)
       IN  IF i = 0 THEN Failed("notfound")
           ELSE LET p == ParseFloat(resp.Data[i].PriceUsd)
                IN  IF p.ok THEN Found(p.val) ELSE Failed("parse")

\* A price kept from the first fetch and reused: no GET after the first.
OneGetCached(n) == IF n = 0 THEN 1 ELSE n

\* The GETs a caller has issued after one more call of getCoinCapPrice:
\* every call makes one http.Get, n were made before.
OneGet(n) == n + 1

\* getCoinCapPrice over the responses and symbols of the model, computed once.
PriceOf == [resp \in Responses |->
              [symbol \in Symbols |-> getCoinCapPrice(resp, symbol)]]

(***************************************************************************)
(* Configuration (config.json as loadConfig returns it) and the ledger.    *)
(***************************************************************************)
Token(name, sym, threshold) ==
  [Name |-> name, Symbol |-> sym, Threshold |-> threshold]

\* json.Decoder on the number literal s of a float64 field (a threshold of
\* config.json, an amount of a request body): the literal converted by
\* strconv.ParseFloat; s is a JSON number in the range of float64.
DecodeNumber(s) == ParseFloat(s).val

Str40000 == <<"4", "0", "0", "0", "0">>
StrMinus1 == <<"-", "1">>
StrHalf == <<"0", ".", "5">>
StrMinusHalf == <<"-", "0", ".", "5">>
StrTenth == <<"0", ".", "1">>
Str2 == <<"2">>

\* Thresholds 40000, 3000 and -1.
TokBTC == Token("Bitcoin", "BTC", DecodeNumber(Str40000))
TokETH == Token("Ethereum", "ETH", DecodeNumber(Str3000))
TokNeg == Token("Bitcoin floor", "BTC", DecodeNumber(StrMinus1))

Configs == { <<>>, <<TokETH>>, <<TokNeg>>, <<TokBTC, TokETH>> }

\* The indexes cfg.Tokens has in some configuration.
TokenIndexes == UNION {DOMAIN c : c \in Configs}

\* The tokens of the configurations.
Tokens == UNION {{c[i] : i \in DOMAIN c} : c \in Configs}

Row(sym, amount) == [Symbol |-> sym, Amount |-> amount]

\* The holdings the bodies of the POST requests carry: 0.5, -0.5 and 0.1 BTC
\* and 2 ETH.
Holdings ==
  { Row("BTC", DecodeNumber(StrHalf)),
    Row("BTC", DecodeNumber(StrMinusHalf)),
    Row("BTC", DecodeNumber(StrTenth)),
    Row("ETH", DecodeNumber(Str2)) }

VARIABLES
  cfg,          \* cfg.Tokens
  fused,        \* the build computes x*y + z with one rounding
  pcMain,       \* main: "spawn", "wait", "exited" (returned), "fatal" (log.Fatal)
  idx,          \* main: the entry of cfg.Tokens the range loop is at
  wg,           \* the WaitGroup's counter
  serving,      \* the goroutine of http.ListenAndServe is running
  pc,           \* monitor i: "notstarted", "fetch", "sleep", "done"
  timer,        \* monitor i: seconds its time.Sleep still lasts
  sinceFetch,   \* monitor i: seconds since its latest fetch, up to retryDelay
  attempt,      \* monitor i: number of its fetches, modulo AttemptMod
  last,         \* monitor i: outcome of its latest cycle
  alerts,       \* monitor i: alerts logged since its latest cycle without
                \* one, up to MaxAlerts
  portfolio,    \* the rows of table portfolio, in rowid order
  vpc,          \* /portfolio/value: "idle", "prices", "done"
  rowsRead,     \* the rows its SELECT returned
  cryptoAmounts,\* its map cryptoAmounts
  remaining,    \* keys of cryptoAmounts its range loop has yet to visit
  totalValue,   \* its totalValue
  visited,      \* the keys its range loop has visited, in order
  lastLookup,   \* the symbol and outcome of the latest lookup of the request
  startMarket,  \* what a GET would have yielded when the request read the table
  sameSnapshot, \* every GET of the request yielded startMarket
  response,     \* what the request answered
  vfetches      \* GETs the request has issued

mvars == <<cfg, fused, pcMain, idx, wg, serving, pc, timer, sinceFetch, attempt, last,
           alerts>>
hvars == <<portfolio, vpc, rowsRead, cryptoAmounts, remaining,
           totalValue, visited, lastLookup, startMarket, sameSnapshot, response,
           vfetches>>
vars == <<mvars, hvars>>

\* The process runs: main has not returned and log.Fatal was not called.
Alive == pcMain \in {"spawn", "wait"}

Monitors == 1..Len(cfg)

NoCycle == [err |-> "init", price |-> Zero(FALSE), alerted |-> FALSE]
NoLookup == [symbol |-> "", err |-> "init"]
NoResponse ==
  [code |-> 0, hasTotal |-> FALSE, total |-> Zero(FALSE), msg |-> ""]

IdleHandler ==
  /\ vpc = "idle"
  /\ rowsRead = <<>>
  /\ cryptoAmounts = <<>>
  /\ remaining = {}
  /\ totalValue = Zero(FALSE)
  /\ visited = <<>>
  /\ lastLookup = NoLookup
  /\ startMarket = Catalog(<<>>)
  /\ sameSnapshot = TRUE
  /\ response = NoResponse
  /\ vfetches = 0

\* The state when main enters its range loop over cfg.Tokens.  main and the
\* monitors compute no sum of products, and their specification takes no
\* step of a handler: the kind of build is left to the specifications in
\* which a valuation runs.
Init ==
  /\ cfg \in Configs
  /\ fused = FALSE
  /\ pcMain = "spawn"
  /\ idx = 1
  /\ wg = 0
  /\ serving = FALSE
  /\ pc = [i \in Monitors |-> "notstarted"]
  /\ timer = [i \in Monitors |-> 0]
  /\ sinceFetch = [i \in Monitors |-> 0]
  /\ attempt = [i \in Monitors |-> 0]
  /\ last = [i \in Monitors |-> NoCycle]
  /\ alerts = [i \in Monitors |-> 0]
  /\ portfolio = <<>>
  /\ IdleHandler

(***************************************************************************)
(* main                                                                    *)
(***************************************************************************)
\* A return of main that does not wait for the monitors.
WaitDoneAlways(n) == TRUE

\* A main that blocks forever in place of wg.Wait.
WaitDoneNever(n) == FALSE

\* wg.Wait returns: the counter n is zero.
WaitDone(n) == n = 0

\* The goroutines the range loop has started so far.
Started == {i \in Monitors : pc[i] # "notstarted"}

\* The monitors that are in their loop.
Running == {i \in Monitors : pc[i] \in {"fetch", "sleep"}}

\* One iteration of the range loop: wg.Add(1); go monitorToken(token).
mainSpawn ==
  /\ pcMain = "spawn"
  /\ idx <= Len(cfg)
  /\ wg' = wg + 1
  /\ pc' = [pc EXCEPT ![idx] = "fetch"]
  /\ idx' = idx + 1
  /\ UNCHANGED <<cfg, fused, pcMain, serving, timer, sinceFetch, attempt,
                 last, alerts, hvars>>

\* The routes are set and the server goroutine is started; main is at wg.Wait.
mainServe ==
  /\ pcMain = "spawn"
  /\ idx > Len(cfg)
  /\ serving' = TRUE
  /\ pcMain' = "wait"
  /\ UNCHANGED <<cfg, fused, idx, wg, pc, timer, sinceFetch, attempt, last,
                 alerts, hvars>>

\* wg.Wait returns and main returns: the process ends.
mainWait ==
  /\ pcMain = "wait"
  /\ WaitDone(wg)
  /\ pcMain' = "exited"
  /\ serving' = FALSE
  /\ UNCHANGED <<cfg, fused, idx, wg, pc, timer, sinceFetch, attempt, last,
                 alerts, hvars>>

\* http.ListenAndServe returns an error: log.Fatal ends the process.
serverFatal ==
  /\ Alive
  /\ serving
  /\ pcMain' = "fatal"
  /\ serving' = FALSE
  /\ UNCHANGED <<cfg, fused, idx, wg, pc, timer, sinceFetch, attempt, last,
                 alerts, hvars>>

(***************************************************************************)
(* monitorToken                                                            *)
(***************************************************************************)
\* The comparison as at-or-above.
BreachOrEqual(price, threshold) ==
  ~IsNaN(price) /\ ~IsNaN(threshold) /\ ~FGt(threshold, price)

\* price > token.Threshold
Breach(price, threshold) == FGt(price, threshold)

\* A monitor that gives up at the first error: return.
AfterErrorReturn == "done"

\* Where a cycle whose lookup failed goes on: continue, the head of the loop.
AfterError == "fetch"


\* Where a cycle whose lookup succeeded goes on: time.Sleep.
AfterCompare == "sleep"

\* The loop variable shared by the goroutines: each reads the entry the
\* range loop ended at.
TokenOfShared(i) == cfg[Len(cfg)]

\* The token of monitor i: go monitorToken(token) passes entry i by value.
TokenOf(i) == cfg[i]

\* An alert that is logged only when the run of breaching cycles begins.
LogAlertOnce(n) == IF n = 0 THEN 1 ELSE n

\* log.Println(msg): one more alert line after the n logged before.
LogAlert(n) == n + 1

\* The comparison made also after a failed lookup, on the 0 it returned.
RaisesAlertDespiteError(r, threshold) == Breach(r.price, threshold)

\* Whether a cycle whose lookup returned r logs the alert: an error takes
\* the cycle to `continue` before the comparison is reached.
RaisesAlert(r, threshold) == r.err = "none" /\ Breach(r.price, threshold)

\* The lookup and the comparison of one cycle of the monitor of token tok
\* when its GET yields resp.
Cycle(resp, tok) ==
  [err     |-> PriceOf[resp][tok.Symbol].err,
   price   |-> PriceOf[resp][tok.Symbol].price,
   alerted |-> RaisesAlert(PriceOf[resp][tok.Symbol], tok.Threshold)]

\* Cycle over the responses and the tokens of the model, computed once.
CycleOf == [resp \in Responses |-> [tok \in Tokens |-> Cycle(resp, tok)]]

\* One cycle of monitor i, from the head of the loop to the continue or to
\* the call of time.Sleep; resp is what its GET yields.
monitorToken(i, resp) ==
  /\ i \in Monitors
  /\ Alive
  /\ pc[i] = "fetch"
  /\ attempt' = [attempt EXCEPT ![i] = OneGet(@) % AttemptMod]
  /\ sinceFetch' = [sinceFetch EXCEPT ![i] = 0]
  /\ LET r    == CycleOf[resp][TokenOf(i)]
         goto == IF r.err # "none" THEN AfterError ELSE AfterCompare
     IN  /\ pc' = [pc EXCEPT ![i] = goto]
         /\ timer' = [timer EXCEPT ![i] =
                        IF goto = "sleep" THEN retryDelay ELSE @]
         \* a return runs the deferred wg.Done
         /\ wg' = IF goto = "done" THEN wg - 1 ELSE wg
         /\ last' = [last EXCEPT ![i] = r]
  /\ alerts' = [alerts EXCEPT ![i] =
                  IF last'[i].alerted THEN Min(LogAlert(@), MaxAlerts) ELSE 0]
  /\ UNCHANGED <<cfg, fused, pcMain, idx, serving, hvars>>

\* time.Sleep(retryDelay * time.Second) of monitor i returns.
monitorWake(i) ==
  /\ i \in Monitors
  /\ Alive
  /\ pc[i] = "sleep"
  /\ timer[i] = 0
  /\ pc' = [pc EXCEPT ![i] = "fetch"]
  /\ UNCHANGED <<cfg, fused, pcMain, idx, wg, serving, timer, sinceFetch,
                 attempt, last, alerts, hvars>>

\* TickSeconds of time pass.
Tick ==
  /\ Alive
  /\ timer' = [i \in Monitors |-> Max(0, timer[i] - TickSeconds)]
  /\ sinceFetch' = [i \in Monitors |->
                      IF pc[i] \in {"fetch", "sleep"}
                      THEN Min(retryDelay, sinceFetch[i] + TickSeconds)
                      ELSE sinceFetch[i]]
  /\ UNCHANGED <<cfg, fused, pcMain, idx, wg, serving, pc, attempt, last,
                 alerts, hvars>>

(***************************************************************************)
(* handleAddToPortfolio                                                    *)
(***************************************************************************)
\* One POST /portfolio/add.  outcome "badbody": the body does not decode and
\* the answer is 400; "dberr": the INSERT fails and the answer is 500; "ok":
\* the row is stored and the answer is 201.  The answer is no state.
handleAddToPortfolio(sym, amount, outcome) ==
  /\ Alive
  /\ serving
  /\ IF outcome = "ok"
     THEN /\ Len(portfolio) < MaxRows
          /\ portfolio' = Append(portfolio, Row(sym, amount))
     ELSE UNCHANGED portfolio
  /\ UNCHANGED <<mvars, vpc, rowsRead, cryptoAmounts, remaining,
                 totalValue, visited, lastLookup, startMarket, sameSnapshot,
                 response, vfetches>>

(***************************************************************************)
(* handlePortfolioValue                                                    *)
(***************************************************************************)
\* The map entry overwritten with the row's amount.
AddAmountOverwrite(m, symbol, amount) ==
  [s \in DOMAIN m \cup {symbol} |-> IF s = symbol THEN amount ELSE m[s]]

\* cryptoAmounts[symbol] += amount, a missing key reading as 0.
AddAmount(m, symbol, amount) ==
  [s \in DOMAIN m \cup {symbol} |->
     IF s = symbol
     THEN FAdd(IF s \in DOMAIN m THEN m[s] ELSE Zero(FALSE), amount)
     ELSE m[s]]

\* The map the rows.Next loop builds from rows, starting from m.
RECURSIVE ScanRows(_, _)
ScanRows(rows, m) ==
  IF rows = <<>> THEN m
  ELSE ScanRows(Tail(rows), AddAmount(m, Head(rows).Symbol, Head(rows).Amount))

\* The total overwritten with the latest product.
AccumulateOverwrite(total, price, amount) == FMul(price, amount)

\* The amount left out of the product.
AccumulateNoAmount(total, price, amount) == FAdd(total, price)

\* totalValue += price * amount: the product is rounded and then the sum,
\* or, in a build that fuses the two, the exact price * amount + totalValue
\* is rounded once.
Accumulate(total, price, amount) ==
  IF fused THEN FMA(price, amount, total) ELSE FAdd(total, FMul(price, amount))

\* What a failed price lookup answers: http.Error, and the handler returns.
PriceError ==
  [code |-> StatusInternalServerError, hasTotal |-> FALSE,
   total |-> Zero(FALSE), msg |-> "Error fetching cryptocurrency price"]

\* What a failed db.Query answers.
QueryError ==
  [code |-> StatusInternalServerError, hasTotal |-> FALSE,
   total |-> Zero(FALSE), msg |-> "Error fetching portfolio data"]

\* What a failed rows.Scan answers.
ScanError ==
  [code |-> StatusInternalServerError, hasTotal |-> FALSE,
   total |-> Zero(FALSE), msg |-> "Error scanning portfolio data"]

\* What a failed Encode answers: http.Error, and the handler returns.
EncodeError ==
  [code |-> StatusInternalServerError, hasTotal |-> FALSE,
   total |-> Zero(FALSE), msg |-> "Error encoding response data"]

\* The JSON object {"total_value": total}, status 200.
TotalResponse(total) ==
  [code |-> StatusOK, hasTotal |-> TRUE, total |-> total, msg |-> ""]

\* A float64 has a JSON form: it is neither an infinity nor a NaN.
IsFinite(x) == x.cls = "fin"

\* json.NewEncoder(w).Encode(response) and the branch on its error: Encode
\* fails on a total that is an infinity or a NaN, before it writes anything.
EncodeTotal(total) ==
  IF IsFinite(total) THEN TotalResponse(total) ELSE EncodeError

\* A best-effort answer: the sum accumulated so far.
OnPriceErrorPartial(total) == TotalResponse(total)

\* What the loop answers when the lookup of a symbol fails.
OnPriceError(total) == PriceError

\* The sequences that list the elements of S once each: the orders in which
\* a range loop may visit the keys S of a map.
Orders(S) ==
  {o \in [1..Cardinality(S) -> S] : \A i, j \in DOMAIN o : i # j => o[i] # o[j]}

\* The answer of the range loop over amounts and of the encoding of the
\* total, when the loop visits the keys in order and every GET yields resp.
RECURSIVE RunPrices(_, _, _, _)
RunPrices(resp, amounts, order, total) ==
  IF order = <<>> THEN EncodeTotal(total)
  ELSE LET r == PriceOf[resp][Head(order)]
       IN  IF r.err # "none" THEN OnPriceError(total)
           ELSE RunPrices(resp, amounts, Tail(order),
                          Accumulate(total, r.price, amounts[Head(order)]))

\* A loop that skips the symbols whose summed amount is zero.
RangeKeysNonZero(m) == {s \in DOMAIN m : ~IsZero(m[s])}

\* The keys `for symbol, amount := range cryptoAmounts` visits: every key
\* of the map, whatever its amount.
RangeKeys(m) == DOMAIN m

\* db.Query("SELECT symbol, amount FROM portfolio"): every row the table
\* holds when the query runs, in rowid order.
SelectRows(table) == table

\* The rows the loop `for rows.Next()` steps through when rows.Next returns
\* false after n rows: at the end of the rows, or before it on an error of
\* the read, which the loop does not tell from the end (rows.Err is never
\* consulted).
SteppedRows(rows, n) == SubSeq(rows, 1, n)

\* db.Query and the rows.Next loop.  read is "query" when db.Query fails,
\* "scan" when rows.Scan fails on the row that follows n rows, "rows" when
\* rows.Next returns false after n rows; start is what a GET made at this
\* moment would yield.
valueQuery(read, n, start) ==
  /\ Alive
  /\ serving
  /\ vpc = "idle"
  /\ n \in 0..Len(SelectRows(portfolio))
  /\ read = "scan" => n < Len(SelectRows(portfolio))
  /\ IF read = "rows"
     THEN /\ rowsRead' = SteppedRows(SelectRows(portfolio), n)
          /\ cryptoAmounts' = ScanRows(rowsRead', <<>>)
          /\ remaining' = RangeKeys(cryptoAmounts')
          /\ startMarket' = start
          /\ vpc' = "prices"
          /\ UNCHANGED response
     ELSE /\ response' = IF read = "query" THEN QueryError ELSE ScanError
          /\ vpc' = "done"
          /\ UNCHANGED <<rowsRead, cryptoAmounts, remaining, startMarket>>
  /\ UNCHANGED <<mvars, portfolio, totalValue, visited, lastLookup,
                 sameSnapshot, vfetches>>

\* One iteration of the range loop over cryptoAmounts, at key symbol; resp is
\* what its GET yields.
valuePrice(symbol, resp) ==
  /\ Alive
  /\ vpc = "prices"
  /\ symbol \in remaining
  /\ LET r == PriceOf[resp][symbol]
     IN  /\ lastLookup' = [symbol |-> symbol, err |-> r.err]
         /\ visited' = Append(visited, symbol)
         /\ IF r.err # "none"
            THEN /\ response' = OnPriceError(totalValue)
                 /\ vpc' = "done"
                 /\ UNCHANGED <<totalValue, remaining>>
            ELSE /\ totalValue' =
                      Accumulate(totalValue, r.price, cryptoAmounts[symbol])
                 /\ remaining' = remaining \ {symbol}
                 /\ UNCHANGED <<response, vpc>>
  /\ sameSnapshot' = (sameSnapshot /\ resp = startMarket)
  /\ vfetches' = OneGet(vfetches)
  /\ UNCHANGED <<mvars, portfolio, rowsRead, cryptoAmounts,
                 startMarket>>

\* The loop is over: the total is encoded and written, or the encoding
\* fails and the server error is written.
valueRespond ==
  /\ Alive
  /\ vpc = "prices"
  /\ remaining = {}
  /\ response' = EncodeTotal(totalValue)
  /\ vpc' = "done"
  /\ UNCHANGED <<mvars, portfolio, rowsRead, cryptoAmounts,
                 remaining, totalValue, visited, lastLookup, startMarket,
                 sameSnapshot, vfetches>>

\* The handler has returned; the next request finds fresh locals.
valueReturn ==
  /\ Alive
  /\ vpc = "done"
  /\ vpc' = "idle"
  /\ rowsRead' = <<>>
  /\ cryptoAmounts' = <<>>
  /\ remaining' = {}
  /\ totalValue' = Zero(FALSE)
  /\ visited' = <<>>
  /\ lastLookup' = NoLookup
  /\ startMarket' = Catalog(<<>>)
  /\ sameSnapshot' = TRUE
  /\ response' = NoResponse
  /\ vfetches' = 0
  /\ UNCHANGED <<mvars, portfolio>>

Next ==
  \/ mainSpawn
  \/ mainServe
  \/ mainWait
  \/ serverFatal
  \/ \E i \in Monitors, resp \in Responses : monitorToken(i, resp)
  \/ \E i \in Monitors : monitorWake(i)
  \/ Tick

Spec == Init /\ [][Next]_vars

\* The scheduler runs every goroutine that can run, and time passes.
monitorStep(i) ==
  \/ \E resp \in Responses : monitorToken(i, resp)
  \/ monitorWake(i)

LiveSpec ==
  /\ Spec
  /\ WF_vars(Tick)
  /\ \A i \in TokenIndexes : WF_vars(monitorStep(i))

\* The scheduler runs main whenever main can take a step.
mainStep == mainSpawn \/ mainServe \/ mainWait

LiveMainSpec == Spec /\ WF_vars(mainStep)

(***************************************************************************)
(* The request handlers alone, in a server that main has started.          *)
(***************************************************************************)
InitValue ==
  /\ cfg = <<TokETH>>
  /\ fused \in BOOLEAN
  /\ pcMain = "wait"
  /\ idx = 2
  /\ wg = 1
  /\ serving = TRUE
  /\ pc = [i \in Monitors |-> "fetch"]
  /\ timer = [i \in Monitors |-> 0]
  /\ sinceFetch = [i \in Monitors |-> 0]
  /\ attempt = [i \in Monitors |-> 0]
  /\ last = [i \in Monitors |-> NoCycle]
  /\ alerts = [i \in Monitors |-> 0]
  /\ portfolio = <<>>
  /\ IdleHandler

NextValue ==
  \/ \E h \in Holdings, outcome \in {"ok", "badbody", "dberr"} :
       handleAddToPortfolio(h.Symbol, h.Amount, outcome)
  \/ \E read \in {"query", "scan", "rows"}, n \in 0..MaxRows,
        start \in Responses : valueQuery(read, n, start)
  \/ \E symbol \in Symbols, resp \in Responses : valuePrice(symbol, resp)
  \/ valueRespond
  \/ valueReturn

SpecValue == InitValue /\ [][NextValue]_vars

(***************************************************************************)
(* The whole program: main, the monitors and the valuation handler, over a *)
(* ledger that portfolio.db holds from earlier runs.                       *)
(***************************************************************************)
Ledgers ==
  { <<>>,
    <<Row("BTC", DecodeNumber(StrHalf)), Row("ETH", DecodeNumber(Str2))>>,
    <<Row("BTC", DecodeNumber(StrMinusHalf)), Row("BTC", DecodeNumber(StrTenth)),
      Row("ETH", DecodeNumber(Str2))>> }

InitProgram ==
  /\ cfg \in {<<>>, <<TokNeg>>}
  /\ fused \in BOOLEAN
  /\ pcMain = "spawn"
  /\ idx = 1
  /\ wg = 0
  /\ serving = FALSE
  /\ pc = [i \in Monitors |-> "notstarted"]
  /\ timer = [i \in Monitors |-> 0]
  /\ sinceFetch = [i \in Monitors |-> 0]
  /\ attempt = [i \in Monitors |-> 0]
  /\ last = [i \in Monitors |-> NoCycle]
  /\ alerts = [i \in Monitors |-> 0]
  /\ portfolio \in Ledgers
  /\ IdleHandler

NextProgram ==
  \/ Next
  \/ \E read \in {"query", "scan", "rows"}, n \in 0..MaxRows,
        start \in Responses : valueQuery(read, n, start)
  \/ \E symbol \in Symbols, resp \in Responses : valuePrice(symbol, resp)
  \/ valueRespond
  \/ valueReturn

SpecProgram == InitProgram /\ [][NextProgram]_vars

(***************************************************************************)
(* Properties of the monitors and of main.                                 *)
(***************************************************************************)
\* The float64 that is the whole number n.
Whole(n) ==
  IF n = 0 THEN Zero(FALSE)
  ELSE Canon(n < 0, BInt(IF n < 0 THEN 0 - n ELSE n), 0)

\* The float64 values 0.5 and -0.5.
Half == [cls |-> "fin", neg |-> FALSE, m |-> <<1>>, e |-> 0 - 1]
MinusHalf == [cls |-> "fin", neg |-> TRUE, m |-> <<1>>, e |-> 0 - 1]

\* The float64 nearest to 0.1: 0x1.999999999999ap-4.
Tenth ==
  [cls |-> "fin", neg |-> FALSE, m |-> <<19661, 6553, 13107, 102>>, e |-> 0 - 55]

\* The float64 nearest to 3000.001: 0x1.77000830e0e2fp+11, and to 10^308:
\* 0x1.1ccf385ebc8a0p+1023.
Near3000m ==
  [cls |-> "fin", neg |-> FALSE, m |-> <<19923, 8388, 14336, 23>>, e |-> 0 - 38]
Near1e308 ==
  [cls |-> "fin", neg |-> FALSE, m |-> <<24133, 14430, 14750, 4>>, e |-> 976]

\* x < 0 and x > 0
Negative(x) == FGt(Zero(FALSE), x)
Positive(x) == FGt(x, Zero(FALSE))

\* A step in which monitor i makes a fetch attempt.
Attempts(i) == attempt'[i] # attempt[i]

\* C1: every fetch attempt of a monitor but its first comes at least
\* retryDelay seconds after the monitor's previous attempt, whether that
\* attempt succeeded or failed.
C1_FixedIntervalBetweenAttempts ==
  [][\A i \in Monitors :
       (Attempts(i) /\ last[i].err # "init") => sinceFetch[i] >= retryDelay]_vars

\* C2: no monitor ever returns, whatever its fetches yield, and while the
\* process runs every started monitor makes another fetch attempt after
\* each of its attempts (its attempt number n does not stay n).
C2_MonitorNeverTerminates ==
  /\ [](\A i \in Monitors : pc[i] # "done")
  /\ \A i \in TokenIndexes, n \in 0..(AttemptMod - 1) :
       (Alive /\ i \in Started /\ attempt[i] = n)
         ~> (~Alive \/ i \notin Started \/ attempt[i] # n)

\* A monitor is at the head of its loop again after a full round of attempt
\* numbers, the latest attempt having failed.
C2_Witness ==
  \E i \in Monitors :
    /\ pc[i] = "fetch"
    /\ attempt[i] = 0
    /\ last[i].err \in {"transport", "decode", "parse", "notfound"}

\* C3: a cycle whose lookup succeeded has raised an alert exactly when the
\* price is strictly above the token's threshold.
C3_StrictBreach ==
  \A i \in Monitors :
    last[i].err = "none" =>
      (last[i].alerted <=> FGt(last[i].price, cfg[i].Threshold))

\* A cycle found the price equal to the threshold and raised no alert.
C3_Witness ==
  \E i \in Monitors :
    last[i].err = "none" /\ last[i].price = cfg[i].Threshold /\ ~last[i].alerted

\* C9: the range loop starts the monitors of the entries one by one, one
\* goroutine and one count of the WaitGroup each; once the loop is over
\* every entry has its monitor; main returns from wg.Wait only when no
\* monitor is in its loop, hence never when there is an entry.
C9_SupervisorJoin ==
  /\ Started = {i \in Monitors : i < idx}
  /\ wg = Cardinality(Running)
  /\ pcMain # "spawn" => Started = Monitors
  /\ pcMain = "exited" => Running = {} /\ Len(cfg) = 0

\* main is at wg.Wait with two monitors running, each of which has cycled.
C9_Witness ==
  /\ pcMain = "wait"
  /\ Len(cfg) = 2
  /\ wg = 2
  /\ \A i \in Monitors : last[i].err # "init"

(***************************************************************************)
(* Properties of the valuation.                                            *)
(***************************************************************************)
\* The symbols that occur in rows.
DistinctSymbols(rows) == {rows[k].Symbol : k \in DOMAIN rows}

\* The float64 sum of acc and the amounts of the rows of symbol s, added
\* one by one in record order.
RECURSIVE SumFrom(_, _, _)
SumFrom(rows, s, acc) ==
  IF rows = <<>> THEN acc
  ELSE SumFrom(Tail(rows), s,
               IF Head(rows).Symbol = s THEN FAdd(acc, Head(rows).Amount)
               ELSE acc)

\* The summed amount of symbol s: the sum from 0 in record order.
SumFor(rows, s) == SumFrom(rows, s, Zero(FALSE))

\* total + price * amount in float64, as the build computes it.
MulAdd(total, price, amount) ==
  IF fused THEN FMA(price, amount, total) ELSE FAdd(total, FMul(price, amount))

\* total plus, for the symbols of order one after the other, price times
\* summed amount, at the prices of resp.
RECURSIVE SumProducts(_, _, _, _)
SumProducts(order, resp, rows, total) ==
  IF order = <<>> THEN total
  ELSE SumProducts(Tail(order), resp, rows,
                   MulAdd(total, PriceOf[resp][Head(order)].price,
                          SumFor(rows, Head(order))))

\* The loop has visited every distinct symbol of the rows once.
VisitedAll ==
  /\ Len(visited) = Cardinality(DistinctSymbols(rowsRead))
  /\ {visited[k] : k \in DOMAIN visited} = DistinctSymbols(rowsRead)

\* The sum of products over the rows read, in the order of the visit.
ValueOfRows == SumProducts(visited, startMarket, rowsRead, Zero(FALSE))

\* Every symbol of rows has a price in resp.
AllResolve(resp, rows) ==
  \A s \in DistinctSymbols(rows) : PriceOf[resp][s].err = "none"

\* The request has answered after reading the table.
Answered == vpc = "done" /\ response \notin {QueryError, ScanError}

\* C4 as stated: when every distinct symbol of the holdings resolves to a
\* price, the valuation answers the sum over the distinct symbols of the
\* symbol's price times the summed amount of the symbol's rows.
C4_ValuationIsSumOfProducts ==
  (Answered /\ sameSnapshot /\ AllResolve(startMarket, rowsRead)) =>
    /\ VisitedAll
    /\ response = TotalResponse(ValueOfRows)

\* C4 amended: when every distinct symbol of the holdings resolves to a
\* price, the valuation has visited every distinct symbol once and computed
\* the float64 sum, in the order of the visit, of the symbol's price times
\* the symbol's amounts summed in record order; it answers that sum when
\* the sum is finite, and the server error without a total when the sum is
\* an infinity or a NaN.
C4_FiniteValuationIsSumOfProducts ==
  (Answered /\ sameSnapshot /\ AllResolve(startMarket, rowsRead)) =>
    /\ VisitedAll
    /\ IsFinite(ValueOfRows) => response = TotalResponse(ValueOfRows)
    /\ ~IsFinite(ValueOfRows) => response = EncodeError

\* The example: BTC at 50000 and ETH at 3000, holdings of 0.5 BTC and 2 ETH,
\* answered with 31000.
C4_Witness ==
  /\ Answered
  /\ sameSnapshot
  /\ rowsRead = <<Row("BTC", Half), Row("ETH", Whole(2))>>
  /\ PriceOf[startMarket]["BTC"].price = Whole(50000)
  /\ PriceOf[startMarket]["ETH"].price = Whole(3000)
  /\ response.hasTotal
  /\ response.total = Whole(31000)

\* C5: once the lookup of a symbol has failed the request has answered a
\* server error that carries no total; and a valuation of the same holdings
\* against a source that answers as it answered this request fails with the
\* same answer, in whatever order it visits the symbols.
C5_FailedLookupFailsValuation ==
  lastLookup.err \notin {"none", "init"} =>
    /\ vpc = "done"
    /\ response.code = StatusInternalServerError
    /\ ~response.hasTotal
    /\ sameSnapshot =>
         \A o \in Orders(DOMAIN cryptoAmounts) :
           RunPrices(startMarket, ScanRows(rowsRead, <<>>), o, Zero(FALSE))
             = response

\* A request failed at its second symbol, with a partial sum accumulated.
C5_Witness ==
  /\ vpc = "done"
  /\ lastLookup.err \notin {"none", "init"}
  /\ sameSnapshot
  /\ Positive(totalValue)
  /\ ~response.hasTotal

\* One row per symbol of rows, carrying the symbol's summed amount, the
\* symbols in order o.
GroupedIn(rows, o) == [k \in DOMAIN o |-> Row(o[k], SumFor(rows, o[k]))]

\* rows with its records in order p (a permutation of its indexes).
Reordered(rows, p) == [k \in DOMAIN p |-> rows[p[k]]]

\* The request has read the table and has made no lookup yet.
JustRead == vpc = "prices" /\ lastLookup = NoLookup

\* The order p keeps the records of each symbol in the order rows has them.
KeepsSymbolOrder(rows, p) ==
  \A a, b \in DOMAIN p :
    (a < b /\ rows[p[a]].Symbol = rows[p[b]].Symbol) => p[a] < p[b]

\* The orders of visit that begin with the visit made so far.
VisitsFrom(S) == {v \in Orders(S) : SubSeq(v, 1, Len(visited)) = visited}

\* C6 as stated: the map the request builds from the rows is the map built
\* from the rows in any other order and from the rows grouped by symbol
\* with summed amounts, and the answer is the answer a valuation of the
\* grouped rows gives at the same prices.
C6_GroupingInvariant ==
  /\ JustRead =>
       /\ \A p \in Orders(DOMAIN rowsRead) :
            ScanRows(Reordered(rowsRead, p), <<>>) = cryptoAmounts
       /\ \A o \in Orders(DistinctSymbols(rowsRead)) :
            ScanRows(GroupedIn(rowsRead, o), <<>>) = cryptoAmounts
  /\ (Answered /\ sameSnapshot) =>
       \A o \in Orders(DistinctSymbols(rowsRead)) :
         \A v \in VisitsFrom(DistinctSymbols(rowsRead)) :
           RunPrices(startMarket, ScanRows(GroupedIn(rowsRead, o), <<>>), v,
                     Zero(FALSE)) = response

\* C6 amended: duplicate symbols add, never overwrite, and the valuation is
\* that of the rows grouped by symbol when the record that replaces the
\* records of a symbol carries the float64 sum of their amounts taken in
\* record order: the map built from the rows is the map built from the
\* grouped rows, and from the rows in any order that keeps the records of
\* each symbol in their order, and the answer is the answer a valuation of
\* the grouped rows gives at the same prices and in the same order of visit.
C6_GroupingInvariantInRecordOrder ==
  /\ JustRead =>
       /\ \A p \in Orders(DOMAIN rowsRead) :
            KeepsSymbolOrder(rowsRead, p) =>
              ScanRows(Reordered(rowsRead, p), <<>>) = cryptoAmounts
       /\ \A o \in Orders(DistinctSymbols(rowsRead)) :
            ScanRows(GroupedIn(rowsRead, o), <<>>) = cryptoAmounts
  /\ (Answered /\ sameSnapshot) =>
       \A o \in Orders(DistinctSymbols(rowsRead)) :
         \A v \in VisitsFrom(DistinctSymbols(rowsRead)) :
           RunPrices(startMarket, ScanRows(GroupedIn(rowsRead, o), <<>>), v,
                     Zero(FALSE)) = response

\* A total was answered for rows of 0.1, 0.5 and -0.5 BTC at 50000: the
\* float64 4999.999999999999 (0x1.387ffffffffffp+12), the value of one row
\* of 0.09999999999999998 BTC, the float64 sum of the three in record order.
C6_Witness ==
  /\ Answered
  /\ sameSnapshot
  /\ response.hasTotal
  /\ rowsRead = <<Row("BTC", Tenth), Row("BTC", Half), Row("BTC", MinusHalf)>>
  /\ response.total =
       [cls |-> "fin", neg |-> FALSE, m |-> <<32767, 32767, 8191, 156>>,
        e |-> 0 - 40]

\* The valuation that fetches the catalog once and reuses the snapshot resp
\* for every symbol of amounts, visiting the symbols in order.
RECURSIVE SnapshotSum(_, _, _, _)
SnapshotSum(order, resp, amounts, total) ==
  IF order = <<>> THEN total
  ELSE SnapshotSum(Tail(order), resp, amounts,
                   MulAdd(total, PriceOf[resp][Head(order)].price,
                          amounts[Head(order)]))

SnapshotTotal(order, resp, amounts) ==
  IF IsFinite(SnapshotSum(order, resp, amounts, Zero(FALSE)))
  THEN TotalResponse(SnapshotSum(order, resp, amounts, Zero(FALSE)))
  ELSE EncodeError

SnapshotValuate(order, resp, amounts) ==
  IF \E s \in DOMAIN amounts : PriceOf[resp][s].err # "none"
  THEN PriceError
  ELSE SnapshotTotal(order, resp, amounts)

\* C10 as stated: a total the valuation answers is the total of the
\* valuation that reuses the snapshot fetched at the start of the call,
\* also when the source's answers change during the call.
C10_StaticPrices ==
  (Answered /\ response.hasTotal) =>
    response = SnapshotValuate(visited, startMarket, cryptoAmounts)

\* C10 amended: a total the valuation answers is the total of the valuation
\* that reuses the snapshot fetched at the start of the call and visits the
\* symbols in the same order, when every GET of the call yielded what a GET
\* at the start of the call would have.
C10_StaticPricesWhenSourceStable ==
  (Answered /\ response.hasTotal /\ sameSnapshot) =>
    response = SnapshotValuate(visited, startMarket, cryptoAmounts)

\* A total was answered from two GETs that both yielded the snapshot of the
\* start of the call.
C10_Witness ==
  /\ Answered
  /\ response.hasTotal
  /\ sameSnapshot
  /\ Cardinality(DOMAIN cryptoAmounts) = 2
  /\ Positive(response.total)

(***************************************************************************)
(* Properties of the price lookup and of its callers.                      *)
(***************************************************************************)
\* resp is a catalog with no record of symbol.
Absent(resp, symbol) ==
  resp.kind = "ok" /\ \A k \in DOMAIN resp.Data : resp.Data[k].Symbol # symbol

\* The catalogs with a record whose price string is no number.
BadPriceCatalogs ==
  {resp \in Responses :
     resp.kind = "ok"
     /\ \E k \in DOMAIN resp.Data : ~ParseFloat(resp.Data[k].PriceUsd).ok}

\* C7: a lookup of a symbol the catalog has no record of ends in the
\* not-found error, and its caller does not go on with price 0: the monitor
\* raises no alert and is back at the head of its loop, the valuation adds
\* nothing to its total and answers the server error.
C7_AbsentSymbolIsNotFound ==
  [][/\ \A i \in Monitors, resp \in Responses :
          (monitorToken(i, resp) /\ Absent(resp, cfg[i].Symbol)) =>
            /\ last'[i].err = "notfound"
            /\ ~last'[i].alerted
            /\ pc'[i] = "fetch"
     /\ \A symbol \in Symbols, resp \in Responses :
          (valuePrice(symbol, resp) /\ Absent(resp, symbol)) =>
            /\ lastLookup' = [symbol |-> symbol, err |-> "notfound"]
            /\ totalValue' = totalValue
            /\ response' = PriceError
            /\ vpc' = "done"]_vars

\* A monitor whose threshold is below zero and a valuation with a partial
\* sum have both just looked up a symbol that was absent.
C7_Witness ==
  /\ \E i \in Monitors :
       last[i].err = "notfound" /\ Negative(cfg[i].Threshold)
  /\ lastLookup.err = "notfound"
  /\ Positive(totalValue)
  /\ vpc = "done"

\* C8 as stated: a lookup in a catalog that holds a record with an
\* unparseable price ends in the parse error, whichever symbol it is for.
C8_AnyBadPriceAbortsFetch ==
  [][/\ \A i \in Monitors, resp \in BadPriceCatalogs :
          monitorToken(i, resp) => last'[i].err = "parse"
     /\ \A symbol \in Symbols, resp \in BadPriceCatalogs :
          valuePrice(symbol, resp) => lastLookup'.err = "parse"]_vars

\* The price strings of the model's catalogs and what strconv.ParseFloat
\* makes of each, computed once.
PriceStrings ==
  UNION {{resp.Data[k].PriceUsd : k \in DOMAIN resp.Data} : resp \in Responses}

ParsedPrice == [s \in PriceStrings |-> ParseFloat(s)]

\* The outcome C8 amended asks of a lookup of symbol in the catalog resp
\* that has a record of it: decided by the first such record alone.
ByFirstRecord(resp, symbol) ==
  LET p == ParsedPrice[resp.Data[FirstMatch(resp.Data, symbol)].PriceUsd]
  IN  IF p.ok THEN Found(p.val) ELSE Failed("parse")

\* C8 amended: a lookup ends in the parse error, and returns no price,
\* exactly when the price string of the first record of the requested
\* symbol is no number; records of other symbols are not converted, and an
\* unparseable price among them does not keep the lookup from returning the
\* requested symbol's price.
C8_BadPriceOfRequestedSymbolAborts ==
  [][/\ \A i \in Monitors, resp \in Responses :
          (monitorToken(i, resp) /\ resp.kind = "ok"
             /\ ~Absent(resp, cfg[i].Symbol)) =>
            LET e == ByFirstRecord(resp, cfg[i].Symbol)
            IN  /\ last'[i].err = e.err
                /\ last'[i].price = e.price
                /\ e.err = "parse" => ~last'[i].alerted
     /\ \A symbol \in Symbols, resp \in Responses :
          (valuePrice(symbol, resp) /\ resp.kind = "ok"
             /\ ~Absent(resp, symbol)) =>
            LET e == ByFirstRecord(resp, symbol)
            IN  /\ lastLookup'.err = e.err
                /\ e.err = "parse" =>
                     response' = PriceError /\ totalValue' = totalValue
                /\ e.err = "none" =>
                     totalValue' =
                       MulAdd(totalValue, e.price, cryptoAmounts[symbol])]_vars

\* A monitor and a valuation have both just ended a lookup in the parse
\* error.
C8_Witness ==
  /\ \E i \in Monitors : last[i].err = "parse"
  /\ lastLookup.err = "parse"
  /\ vpc = "done"

(***************************************************************************)
(* Properties of the monitor's cycle.                                      *)
(***************************************************************************)
\* C11: a cycle whose price lookup failed (transport, decode, parse or
\* not-found error) has made no comparison and raised no alert, whatever
\* the token's threshold, a threshold below the 0 the failed lookup returns
\* included; the cycle that follows starts with a new fetch.
C11_FailedCycleRaisesNoAlert ==
  \A i \in Monitors :
    last[i].err \in {"transport", "decode", "parse", "notfound"} =>
      /\ last[i].price = Zero(FALSE)
      /\ ~last[i].alerted
      /\ pc[i] = "fetch"

\* A monitor whose threshold is below zero has just failed a lookup for a
\* reason other than an absent symbol.
C11_Witness ==
  \E i \in Monitors :
    /\ Negative(cfg[i].Threshold)
    /\ last[i].err \in {"transport", "decode", "parse"}
    /\ FGt(last[i].price, cfg[i].Threshold)

\* C12: alerts are level-triggered: every cycle whose lookup succeeds with
\* a price above the token's threshold logs exactly one alert, also when
\* the cycle before it logged one, so that k such cycles in a row log k
\* alerts; every other cycle logs none.
C12_AlertEveryBreachingCycle ==
  [][\A i \in Monitors, resp \in Responses :
       monitorToken(i, resp) =>
         LET r == PriceOf[resp][cfg[i].Symbol]
         IN  IF r.err = "none" /\ FGt(r.price, cfg[i].Threshold)
             THEN /\ last'[i].alerted
                  /\ alerts'[i] = Min(alerts[i] + 1, MaxAlerts)
             ELSE /\ ~last'[i].alerted
                  /\ alerts'[i] = 0]_vars

\* A monitor has logged an alert in each of two cycles in a row.
C12_Witness ==
  \E i \in Monitors :
    /\ alerts[i] >= 2
    /\ last[i].alerted
    /\ pc[i] = "sleep"

\* The variables of monitor j have the same values after the step.
SameMonitor(j) ==
  /\ pc'[j] = pc[j]
  /\ timer'[j] = timer[j]
  /\ sinceFetch'[j] = sinceFetch[j]
  /\ attempt'[j] = attempt[j]
  /\ last'[j] = last[j]
  /\ alerts'[j] = alerts[j]

\* C13: the monitors are independent. A step of one monitor leaves the
\* state of every other monitor and the configuration as they were; a
\* monitor looks up its own entry's symbol and compares the price with its
\* own entry's threshold, as loaded at startup; and whatever the other
\* monitors do or fail at, a monitor at the head of its loop can fetch and
\* a monitor whose sleep is over can wake.
C13_MonitorsIndependent ==
  /\ [](\A j \in Monitors :
         /\ (Alive /\ pc[j] = "fetch") =>
              ENABLED (\E resp \in Responses : monitorToken(j, resp))
         /\ (Alive /\ pc[j] = "sleep" /\ timer[j] = 0) =>
              ENABLED monitorWake(j))
  /\ [][/\ \A i \in Monitors :
            monitorStep(i) =>
              /\ cfg' = cfg
              /\ \A j \in Monitors \ {i} : SameMonitor(j)
        /\ \A i \in Monitors, resp \in Responses :
             monitorToken(i, resp) =>
               LET r == PriceOf[resp][cfg[i].Symbol]
               IN  /\ last'[i].err = r.err
                   /\ last'[i].price = r.price
                   /\ last'[i].alerted <=>
                        (r.err = "none" /\ FGt(r.price, cfg[i].Threshold))]_vars

\* Of two monitors one has just failed a lookup and is at its next fetch
\* while the other has alerted in two cycles in a row and sleeps.
C13_Witness ==
  \E i, j \in Monitors :
    /\ i # j
    /\ last[i].err \in {"transport", "decode", "parse", "notfound"}
    /\ pc[i] = "fetch"
    /\ alerts[j] >= 2
    /\ pc[j] = "sleep"
    /\ cfg[i].Threshold # cfg[j].Threshold

\* The float64 nearest to the number each numeric price string of the
\* model's catalogs denotes.
NumericValue(s) ==
  CASE s = Str50000 -> Whole(50000)
    [] s = Str3000  -> Whole(3000)
    [] s = Str3000m -> Near3000m
    [] s = Str1e308 -> Near1e308

IsNumeric(s) == s \in {Str50000, Str3000, Str3000m, Str1e308}

\* The price string of the first record of symbol in the catalog resp.
RecordedPrice(resp, symbol) ==
  LET k == CHOOSE n \in DOMAIN resp.Data :
             /\ resp.Data[n].Symbol = symbol
             /\ \A m \in 1..(n - 1) : resp.Data[m].Symbol # symbol
  IN  resp.Data[k].PriceUsd

\* C14 as stated: a lookup of a symbol that has a record in the fetched
\* catalog succeeds, whatever the record's price string is.
C14_PresentSymbolResolves ==
  [][/\ \A i \in Monitors, resp \in Responses :
          (monitorToken(i, resp) /\ resp.kind = "ok"
             /\ ~Absent(resp, cfg[i].Symbol)) =>
            last'[i].err = "none"
     /\ \A symbol \in Symbols, resp \in Responses :
          (valuePrice(symbol, resp) /\ resp.kind = "ok"
             /\ ~Absent(resp, symbol)) =>
            lastLookup'.err = "none"]_vars

\* C14 amended: a lookup of a symbol whose first record in the fetched
\* catalog carries a numeric price string succeeds and returns the float64
\* nearest to the number that string denotes: not the price of another
\* symbol's record, and not the price an earlier fetch returned. The
\* monitor compares that number and the valuation multiplies that number.
C14_PresentNumericPriceIsReturned ==
  [][/\ \A i \in Monitors, resp \in Responses :
          (monitorToken(i, resp) /\ resp.kind = "ok"
             /\ ~Absent(resp, cfg[i].Symbol)
             /\ IsNumeric(RecordedPrice(resp, cfg[i].Symbol))) =>
            /\ last'[i].err = "none"
            /\ last'[i].price = NumericValue(RecordedPrice(resp, cfg[i].Symbol))
     /\ \A symbol \in Symbols, resp \in Responses :
          (valuePrice(symbol, resp) /\ resp.kind = "ok"
             /\ ~Absent(resp, symbol)
             /\ IsNumeric(RecordedPrice(resp, symbol))) =>
            /\ lastLookup' = [symbol |-> symbol, err |-> "none"]
            /\ totalValue' =
                 MulAdd(totalValue, NumericValue(RecordedPrice(resp, symbol)),
                        cryptoAmounts[symbol])]_vars

\* A monitor of BTC got 50000 and alerted, and a valuation has just added
\* 0.5 BTC at 50000 to the 2 ETH at 3000.001 it had summed from another
\* fetch: 31000.002, the float64 0x1.e4600083126e9p+14.
C14_Witness ==
  /\ \E i \in Monitors :
       /\ cfg[i].Symbol = "BTC"
       /\ last[i].err = "none"
       /\ last[i].price = Whole(50000)
       /\ last[i].alerted
  /\ lastLookup = [symbol |-> "BTC", err |-> "none"]
  /\ totalValue =
       [cls |-> "fin", neg |-> FALSE, m |-> <<19923, 8388, 3072, 121>>,
        e |-> 0 - 37]

(***************************************************************************)
(* Properties of the valuation's reads and fetches.                        *)
(***************************************************************************)
\* C15: the table holds a row from the step that answers its insert with
\* Created. A valuation reads the table once, before its first price
\* lookup, and gets every row the table holds at that moment, hence every
\* holding acknowledged before; rows inserted while the request runs change
\* neither the rows it read nor its map, and a total it answers is the
\* total of the rows it read.
C15_ValuationSeesAcknowledgedHoldings ==
  /\ [][/\ \A n \in 0..MaxRows, start \in Responses :
              valueQuery("rows", n, start) =>
                /\ lastLookup = NoLookup
                /\ rowsRead' = portfolio
                /\ DOMAIN cryptoAmounts' = DistinctSymbols(portfolio)
                /\ \A s \in DistinctSymbols(portfolio) :
                     cryptoAmounts'[s] = SumFor(portfolio, s)
        /\ vpc = "prices" =>
             rowsRead' = rowsRead /\ cryptoAmounts' = cryptoAmounts
        /\ (vpc = "done" /\ vpc' = "done") =>
             rowsRead' = rowsRead /\ response' = response]_vars
  /\ []((Answered /\ response.hasTotal /\ sameSnapshot) =>
          response.total = ValueOfRows)

\* C16: no price is kept for a later lookup. Every cycle of a monitor
\* issues exactly one GET and nothing else of the monitor issues any; every
\* iteration of the valuation's loop issues exactly one GET, so that a
\* valuation that answers a total has issued as many GETs as its holdings
\* have distinct symbols, however many rows they are; and a valuation whose
\* lookup failed has issued one GET per symbol it had summed and one for
\* the symbol that failed, and issues none after.
C16_OneFetchPerLookup ==
  /\ [][/\ \A i \in Monitors :
            IF \E resp \in Responses : monitorToken(i, resp)
            THEN attempt'[i] = (attempt[i] + 1) % AttemptMod
            ELSE attempt'[i] = attempt[i]
        /\ IF \E symbol \in Symbols, resp \in Responses : valuePrice(symbol, resp)
           THEN vfetches' = vfetches + 1
           ELSE vfetches' = vfetches \/ (vpc = "done" /\ vpc' = "idle")]_vars
  /\ []((Answered /\ response.hasTotal) =>
          vfetches = Cardinality(DistinctSymbols(rowsRead)))
  /\ []((vpc = "done" /\ lastLookup.err \notin {"none", "init"}) =>
          vfetches = Cardinality(DOMAIN cryptoAmounts \ remaining) + 1)

\* A valuation of three rows of two symbols has answered a total after two
\* GETs, and a monitor has completed a cycle.
C16_Witness ==
  /\ Answered
  /\ response.hasTotal
  /\ Len(rowsRead) = 3
  /\ vfetches = 2
  /\ \E i \in Monitors : last[i].err = "none" /\ attempt[i] = 1

(***************************************************************************)
(* Properties of an empty configuration.                                   *)
(***************************************************************************)
\* C17: with no token configured no monitor is ever started and the
\* WaitGroup counter stays 0, so wg.Wait returns as soon as main reaches
\* it: main returns, and the process and its server goroutine end. With a
\* token configured wg.Wait never returns: main returns only when the
\* configuration is empty, and only a configured token keeps the process
\* alive to serve.
C17_EmptyConfigEndsProcess ==
  /\ [](Len(cfg) = 0 =>
         /\ Started = {}
         /\ wg = 0
         /\ pcMain = "wait" => ENABLED mainWait)
  /\ [](pcMain = "exited" => (Len(cfg) = 0 /\ ~serving))
  /\ []((Len(cfg) > 0 /\ pcMain = "wait") => ~ENABLED mainWait)
  /\ (Len(cfg) = 0) ~> (~Alive /\ ~serving)

\* main has returned from an empty configuration after it had started the
\* server goroutine, which is stopped.
C17_Witness ==
  /\ Len(cfg) = 0
  /\ pcMain = "exited"
  /\ idx = 1
  /\ wg = 0
  /\ ~serving

\* The symbols of rows whose amounts sum to zero and that resp has no
\* price for.
ZeroSumUnresolved(rows, resp) ==
  {s \in DistinctSymbols(rows) :
     IsZero(SumFor(rows, s)) /\ PriceOf[resp][s].err # "none"}

\* C18: the valuation's loop visits every distinct symbol of the rows it
\* read, a symbol whose amounts sum to zero included; when such a symbol has
\* no price the request answers the server error and no total, although
\* the symbol would have added nothing to the total.
C18_ZeroSumSymbolIsLookedUp ==
  /\ JustRead => remaining = DistinctSymbols(rowsRead)
  /\ (Answered /\ sameSnapshot
        /\ ZeroSumUnresolved(rowsRead, startMarket) # {}) =>
       response = PriceError
  /\ (Answered /\ response.hasTotal) =>
       (remaining = {} /\ vfetches = Cardinality(DistinctSymbols(rowsRead)))

\* A request over +0.5 and -0.5 BTC and 2 ETH has summed the ETH and then
\* failed at the lookup of BTC.
C18_Witness ==
  /\ Answered
  /\ sameSnapshot
  /\ IsZero(SumFor(rowsRead, "BTC"))
  /\ "BTC" \in DistinctSymbols(rowsRead)
  /\ lastLookup.symbol = "BTC"
  /\ lastLookup.err \in {"transport", "decode", "parse", "notfound"}
  /\ Positive(totalValue)
  /\ response = PriceError

====
